---- MODULE Spec2Model ----
(***************************************************************************)
(* The session bridge of telegram-cowork-bridge (src/skill/index.ts):      *)
(* claude_code_execute, claude_code_status, claude_code_cancel and         *)
(* claude_code_clear_session over the process-wide tables sessions and     *)
(* activeProcesses.  The runtime is single threaded: an execute call runs  *)
(* from its entry to `await execAsync` in one step, and from the           *)
(* settlement of that promise to its return in another.                    *)
(***************************************************************************)
EXTENDS Integers, Sequences, FiniteSets, TLC

\* ------------------------------------------------------------------ bounds
MaxCalls == 2        \* execute calls made in one behaviour
MaxTime == 1         \* readings of the wall clock go from 0 to MaxTime
MaxChunks == 3       \* pieces a prompt text is put together from

\* ------------------------------------------------------- program constants
DEFAULT_TOOLS ==
    <<"Read", "Write", "Edit", "Bash", "Glob", "Grep", "WebFetch", "WebSearch">>

DEFAULT_TIMEOUT == 300000

MAX_BUFFER == 10 * 1024 * 1024

\* --------------------------------------------------------- values of the
\* language: undefined, truthiness, a || b
Undefined == "undefined"

Falsy(v) == v \in {Undefined, ""}

JsOr(a, b) == IF Falsy(a) THEN b ELSE a

\* An option bag is a function from the names of the properties it has.
Has(options, key) == key \in DOMAIN options

NoOptions == [k \in {} |-> Undefined]

\* ------------------------------------------------------------ text helpers
\* A text is a sequence of one-character strings.
UpperCase ==
    <<"A", "B", "C", "D", "E", "F", "G", "H", "I", "J", "K", "L", "M",
      "N", "O", "P", "Q", "R", "S", "T", "U", "V", "W", "X", "Y", "Z">>

LowerCase ==
    <<"a", "b", "c", "d", "e", "f", "g", "h", "i", "j", "k", "l", "m",
      "n", "o", "p", "q", "r", "s", "t", "u", "v", "w", "x", "y", "z">>

ToLower(c) ==
    IF \E i \in 1..26 : UpperCase[i] = c
    THEN LowerCase[CHOOSE i \in 1..26 : UpperCase[i] = c]
    ELSE c

\* \s of a regular expression (the ASCII part of it)
WhiteSpace == {" ", "\t", "\n", "\f", "\r"}

\* A pattern is a sequence of sets of lower-case characters; the flag i of the
\* expression folds the text's character before the comparison.
Lit(text) == [k \in 1..Len(text) |-> {ToLower(text[k])}]

MatchAt(s, i, pat) ==
    /\ i + Len(pat) - 1 <= Len(s)
    /\ \A k \in 1..Len(pat) : ToLower(s[i + k - 1]) \in pat[k]

\* str.replace(/pat/gi, ''): leftmost matches, left to right, not overlapping
RECURSIVE RemoveFrom(_, _, _)
RemoveFrom(s, pat, i) ==
    IF i > Len(s) THEN <<>>
    ELSE IF MatchAt(s, i, pat) THEN RemoveFrom(s, pat, i + Len(pat))
    ELSE <<s[i]>> \o RemoveFrom(s, pat, i + 1)

RemoveAll(s, pat) == RemoveFrom(s, pat, 1)

\* str.replace(/c/g, '\\c'): every c gets a backslash in front of it
RECURSIVE EscapeChar(_, _)
EscapeChar(s, c) ==
    IF s = <<>> THEN <<>>
    ELSE (IF Head(s) = c THEN <<"\\", c>> ELSE <<Head(s)>>) \o EscapeChar(Tail(s), c)

\* The character U+0060 (a TLA+ string cannot hold it) is written BackQuote.
BackQuote == "BQ"

escapeForShell(str) ==
    EscapeChar(EscapeChar(EscapeChar(EscapeChar(EscapeChar(str,
        "\\"), "\""), "$"), BackQuote), "!")

PatAllowedTools ==
    Lit(<<"-", "-", "a", "l", "l", "o", "w", "e", "d", "T", "o", "o", "l", "s">>)

PatDangerously ==
    Lit(<<"-", "-", "d", "a", "n", "g", "e", "r", "o", "u", "s", "l", "y">>)

PatPrintFlag == Lit(<<"-", "p">>) \o <<WhiteSpace>>

sanitizePrompt(prompt) ==
    RemoveAll(RemoveAll(RemoveAll(prompt, PatAllowedTools), PatDangerously),
              PatPrintFlag)

\* tools.join(",")
RECURSIVE Join(_)
Join(tools) ==
    IF tools = <<>> THEN ""
    ELSE IF Len(tools) = 1 THEN tools[1]
    ELSE tools[1] \o "," \o Join(Tail(tools))

\* ------------------------------------------------------------------ state
VARIABLES
    sessions,         \* Map<string, SessionInfo>: a function on the keys it holds
    activeProcesses,  \* Map<string, ChildProcess>: a function on the keys it holds
    calls,            \* the execute calls: where each one is, and its locals
    now,              \* the wall clock (Date.now(), new Date())
    ev,               \* the last thing a caller or the subprocess layer observed
    returned,         \* history: the token of the last token-returning completion
                      \* of each user since that user's last clearSession
    completions,      \* history: how many such completions there were
    cleared           \* history: clearSession(u) returned and no invocation was
                      \* issued for u since

vars == <<sessions, activeProcesses, calls, now, ev, returned, completions, cleared>>

\* ----------------------------------------------------------------- inputs
UserIds == {"", "u1"}

CallIds == 1..MaxCalls

PromptHi == <<"h", "i">>

PromptFlagOnly == <<"-", "P", " ">>

PromptShell == <<"a", "$">>

BaseRequests ==
    { [prompt |-> PromptHi, options |-> NoOptions],
      [prompt |-> PromptHi, options |-> [allowedTools |-> <<"Read", "Hack">>]],
      [prompt |-> <<>>, options |-> [allowedTools |-> <<>>, timeout |-> 100]],
      [prompt |-> PromptFlagOnly,
       options |-> [allowedTools |-> <<"Read", "Glob">>, workingDir |-> "/work",
                    timeout |-> 0]],
      [prompt |-> PromptHi, options |-> [timeout |-> -1]],
      [prompt |-> PromptShell, options |-> [appendSystemPrompt |-> <<"b", "!">>]] }

Requests ==
    BaseRequests \cup
    { [prompt |-> r.prompt, options |-> [newSession |-> TRUE] @@ r.options] :
        r \in BaseRequests }

\* What the subprocess can write to its standard output: the text, and what
\* JSON.parse makes of it (a value, or a SyntaxError).
JsonObject(props) == [type |-> "object", props |-> props]

Parses(raw, value) == [raw |-> raw, valid |-> TRUE, value |-> value]

NoParse(raw) == [raw |-> raw, valid |-> FALSE, value |-> [type |-> "none"]]

Stdouts ==
    { Parses("{\"result\":\"done\",\"sessionId\":\"s1\"}",
             JsonObject([result |-> "done", sessionId |-> "s1"])),
      Parses("{\"result\":\"x\",\"sessionId\":\"s2\"}",
             JsonObject([result |-> "x", sessionId |-> "s2"])),
      Parses("{\"content\":\"c\",\"session_id\":\"s1\"}",
             JsonObject([content |-> "c", session_id |-> "s1"])),
      Parses("{\"response\":\"r\"}", JsonObject([response |-> "r"])),
      Parses("{\"result\":\"\",\"sessionId\":\"s2\",\"session_id\":\"s1\"}",
             JsonObject([result |-> "", sessionId |-> "s2", session_id |-> "s1"])),
      Parses("null", [type |-> "null"]),
      Parses("42", [type |-> "number"]),
      NoParse("plain text"),
      NoParse("") }

\* How the subprocess can end, as child_process.exec reports it.
FailureKinds == {"nonzero", "timeout", "killed", "maxbuffer", "spawnerr"}

Outcomes ==
    [kind : {"exit0"}, stdout : Stdouts] \cup
    [kind : FailureKinds, stdout : {NoParse("")}]

\* ------------------------------------------------- claude_code_execute
\* result.<key> of a parsed value: undefined for a property the object lacks
\* and for every property of a number
Prop(value, key) ==
    IF value.type = "object" /\ key \in DOMAIN value.props
    THEN value.props[key]
    ELSE Undefined

\* A bug: text that does not parse leaves no result.
ParseOrRawNoFallback(stdout) ==
    IF stdout.valid THEN stdout.value ELSE [type |-> "null"]

\* try { result = JSON.parse(stdout) } catch { result = { content: stdout } }
ParseOrRaw(stdout) ==
    IF stdout.valid THEN stdout.value ELSE JsonObject([content |-> stdout.raw])

\* options.newSession, as a condition
NewSession(options) == Has(options, "newSession") /\ options.newSession

\* A bug: the flag is read the wrong way round.
ResumeReferenceInverted(userId, options) ==
    IF userId \in DOMAIN sessions /\ NewSession(options)
    THEN sessions[userId].sessionId ELSE Undefined

\* A bug: the flag is not read.
ResumeReferenceUnconditional(userId, options) ==
    IF userId \in DOMAIN sessions THEN sessions[userId].sessionId ELSE Undefined

\* A bug: a user without a session continues the session of another user.
ResumeReferenceAnyUser(userId, options) ==
    IF NewSession(options) \/ DOMAIN sessions = {} THEN Undefined
    ELSE IF userId \in DOMAIN sessions THEN sessions[userId].sessionId
    ELSE sessions[CHOOSE u \in DOMAIN sessions : TRUE].sessionId

\* The argument of --resume, Undefined when the flag is not added.
ResumeReference(userId, options) ==
    IF userId \in DOMAIN sessions /\ ~NewSession(options)
    THEN sessions[userId].sessionId ELSE Undefined

\* A bug: the caller's value goes to exec as it is (0 when there is none).
TimeoutOptionAsGiven(options) ==
    IF Has(options, "timeout") THEN options.timeout ELSE 0

\* options.timeout || DEFAULT_TIMEOUT
TimeoutOption(options) ==
    IF Has(options, "timeout") /\ options.timeout # 0
    THEN options.timeout ELSE DEFAULT_TIMEOUT

\* The command line and the options handed to exec.
BuildInvocation(prompt, userId, options) ==
    LET cleanPrompt == sanitizePrompt(prompt)
        tools == IF Has(options, "allowedTools")
                 THEN options.allowedTools ELSE DEFAULT_TOOLS
    IN  [ cleanPrompt |-> cleanPrompt,
          tools |-> tools,
          promptArg |-> escapeForShell(cleanPrompt),
          toolsArg |-> Join(tools),
          systemPromptArg |->
              IF Has(options, "appendSystemPrompt") /\ options.appendSystemPrompt # <<>>
              THEN escapeForShell(options.appendSystemPrompt) ELSE <<>>,
          resume |-> ResumeReference(userId, options),
          maxBuffer |-> MAX_BUFFER,
          timeout |-> TimeoutOption(options),
          cwd |-> IF Has(options, "workingDir") /\ options.workingDir # ""
                  THEN options.workingDir ELSE Undefined,
          outputFormat |-> "json" ]

\* exec validates its options before it starts anything: a timeout that is
\* not a non-negative integer makes it throw.
ExecThrows(inv) == inv.timeout < 0

\* exec arms its timer (which kills the child on expiry) for a timeout > 0.
TimerArmed(inv) == inv.timeout > 0

\* The message of the error execAsync rejects (or throws) with.  For every
\* abnormal end of the child (non-zero status, a signal, exec's own kill on
\* expiry of the timeout) exec builds `Command failed: <cmd>\n<stderr>`.
ErrorMessage(kind) ==
    CASE kind \in {"nonzero", "timeout", "killed"} -> "Command failed: claude -p"
      [] kind = "maxbuffer" -> "stdout maxBuffer length exceeded"
      [] kind = "spawnerr" -> "spawn /bin/sh ENOENT"
      [] kind = "badoption" -> "The value of \"timeout\" is out of range."
      [] kind = "typeerror" -> "Cannot read properties of null (reading 'sessionId')"

\* A bug: an update stamps the start of the record too.
UpdateSessionRestampsStart(table, userId, sessionId, time) ==
    IF userId \in DOMAIN table
    THEN [table EXCEPT ![userId] =
            [sessionId |-> sessionId, startedAt |-> time,
             lastActivity |-> time, messageCount |-> @.messageCount + 1]]
    ELSE (userId :> [sessionId |-> sessionId, startedAt |-> time,
                     lastActivity |-> time, messageCount |-> 1]) @@ table

\* A bug: a different token starts the record anew.
UpdateSessionRestartsOnNewToken(table, userId, sessionId, time) ==
    IF userId \in DOMAIN table /\ table[userId].sessionId = sessionId
    THEN [table EXCEPT ![userId] =
            [@ EXCEPT !.lastActivity = time, !.messageCount = @ + 1]]
    ELSE (userId :> [sessionId |-> sessionId, startedAt |-> time,
                     lastActivity |-> time, messageCount |-> 1]) @@ table

\* A bug: the first token a record got stays.
UpdateSessionKeepsToken(table, userId, sessionId, time) ==
    IF userId \in DOMAIN table
    THEN [table EXCEPT ![userId] =
            [@ EXCEPT !.lastActivity = time, !.messageCount = @ + 1]]
    ELSE (userId :> [sessionId |-> sessionId, startedAt |-> time,
                     lastActivity |-> time, messageCount |-> 1]) @@ table

\* A bug: the record is set anew on every completion.
UpdateSessionOverwrites(table, userId, sessionId, time) ==
    (userId :> [sessionId |-> sessionId, startedAt |-> time,
                lastActivity |-> time, messageCount |-> 1]) @@ table

\* if (sessionId) { ... }: create the user's record, or update it in place
UpdateSession(table, userId, sessionId, time) ==
    IF userId \in DOMAIN table
    THEN [table EXCEPT ![userId] =
            [@ EXCEPT !.lastActivity = time,
                      !.messageCount = @ + 1,
                      !.sessionId = sessionId]]
    ELSE (userId :> [sessionId |-> sessionId, startedAt |-> time,
                     lastActivity |-> time, messageCount |-> 1]) @@ table

\* A bug: the result of a success carries an error text.
SuccessResultWithError(result, stdout, sessionId, executionTime) ==
    [ success |-> TRUE, output |-> stdout.raw, sessionId |-> sessionId,
      error |-> "", executionTime |-> executionTime ]

\* A bug: content is looked at before result.
SuccessResultContentFirst(result, stdout, sessionId, executionTime) ==
    [ success |-> TRUE,
      output |-> JsOr(JsOr(JsOr(Prop(result, "content"), Prop(result, "result")),
                           Prop(result, "response")), stdout.raw),
      sessionId |-> sessionId,
      error |-> Undefined,
      executionTime |-> executionTime ]

\* return { success: true, ... }
SuccessResult(result, stdout, sessionId, executionTime) ==
    [ success |-> TRUE,
      output |-> JsOr(JsOr(JsOr(Prop(result, "result"), Prop(result, "content")),
                           Prop(result, "response")), stdout.raw),
      sessionId |-> sessionId,
      error |-> Undefined,
      executionTime |-> executionTime ]

\* A bug: the error is thrown on to the caller.
CatchBlockRethrows(message, executionTime) ==
    [ settled |-> "rejected",
      result |-> [ success |-> FALSE, output |-> "", sessionId |-> Undefined,
                   error |-> message, executionTime |-> executionTime ] ]

\* catch (error) { return { success: false, ... } }
CatchBlock(message, executionTime) ==
    [ settled |-> "fulfilled",
      result |-> [ success |-> FALSE,
                   output |-> "",
                   sessionId |-> Undefined,
                   error |-> JsOr(message, "Claude Code execution failed"),
                   executionTime |-> executionTime ] ]

\* The body of try, from the settlement of execAsync on: either it throws
\* (threw, with the message), or it returns a result and a new session table.
TryBlock(userId, outcome, startTime) ==
    IF outcome.kind # "exit0"
    THEN [threw |-> TRUE, message |-> ErrorMessage(outcome.kind)]
    ELSE LET result == ParseOrRaw(outcome.stdout)
         IN  IF result.type = "null"
             THEN [threw |-> TRUE, message |-> ErrorMessage("typeerror")]
             ELSE LET sessionId == JsOr(Prop(result, "sessionId"),
                                        Prop(result, "session_id"))
                  IN  [ threw |-> FALSE,
                        sessions |-> IF Falsy(sessionId) THEN sessions
                                     ELSE UpdateSession(sessions, userId, sessionId, now),
                        settled |-> "fulfilled",
                        result |-> SuccessResult(result, outcome.stdout, sessionId,
                                                 now - startTime) ]

\* A bug: a failed call takes the user's session with it.
SettleForgetsOnFailure(userId, outcome, startTime) ==
    LET t == TryBlock(userId, outcome, startTime)
    IN  IF t.threw
        THEN [sessions |-> [u \in DOMAIN sessions \ {userId} |-> sessions[u]]]
                 @@ CatchBlock(t.message, now - startTime)
        ELSE [sessions |-> t.sessions, settled |-> t.settled, result |-> t.result]

\* What the promise execute returned settles with, and the session table.
Settle(userId, outcome, startTime) ==
    LET t == TryBlock(userId, outcome, startTime)
    IN  IF t.threw
        THEN [sessions |-> sessions] @@ CatchBlock(t.message, now - startTime)
        ELSE [sessions |-> t.sessions, settled |-> t.settled, result |-> t.result]

\* ------------------------------------------------------------ the calls
\* The calls are numbered in the order they are made.  overlapped is history:
\* the call was in flight together with another call of the same user.
IdleCall ==
    [pc |-> "idle", userId |-> "", resume |-> Undefined, startTime |-> 0,
     timer |-> FALSE, signalled |-> FALSE, overlapped |-> FALSE]

DoneCall == [IdleCall EXCEPT !.pc = "done"]

Awaiting(c) == calls[c].pc = "awaiting"

InFlight(userId) == {c \in CallIds : Awaiting(c) /\ calls[c].userId = userId}

\* A completion that returned a token to its caller.
ReturnedToken(settlement) ==
    /\ settlement.settled = "fulfilled"
    /\ settlement.result.success
    /\ ~Falsy(settlement.result.sessionId)

\* The event and the history a settled call leaves.
Return(c, userId, outcome, spawned, settlement) ==
    /\ sessions' = settlement.sessions
    /\ calls' = [calls EXCEPT ![c] = DoneCall]
    /\ ev' = [op |-> "return", userId |-> userId, outcome |-> outcome,
              spawned |-> spawned, overlapped |-> calls[c].overlapped,
              resume |-> calls[c].resume,
              settled |-> settlement.settled,
              result |-> settlement.result]
    /\ returned' = IF ReturnedToken(settlement)
                   THEN [returned EXCEPT ![userId] = settlement.result.sessionId]
                   ELSE returned
    /\ completions' = IF ReturnedToken(settlement)
                      THEN [completions EXCEPT ![userId] = @ + 1]
                      ELSE completions

\* A variant that admits one external process at a time.
MayStartOneAtATime(c, userId) ==
    /\ calls[c].pc = "idle"
    /\ \A d \in CallIds : d < c => calls[d].pc # "idle"
    /\ \A d \in CallIds : ~Awaiting(d)

\* Nothing between the entry of claude_code_execute and exec waits for, or
\* looks at, another call: the call takes the next unused slot.
MayStart(c, userId) ==
    /\ calls[c].pc = "idle"
    /\ \A d \in CallIds : d < c => calls[d].pc # "idle"

\* claude_code_execute, from its entry to `await execAsync(cmd, execOptions)`
ExecuteStart(c, prompt, userId, options) ==
    /\ MayStart(c, userId)
    /\ LET inv == BuildInvocation(prompt, userId, options)
       IN  IF ExecThrows(inv)
           THEN /\ Return(c, userId, [kind |-> "badoption", stdout |-> NoParse("")],
                          FALSE, Settle(userId,
                                        [kind |-> "badoption", stdout |-> NoParse("")],
                                        now))
                /\ UNCHANGED cleared
           ELSE /\ calls' = [d \in CallIds |->
                              IF d = c
                              THEN [pc |-> "awaiting", userId |-> userId,
                                    resume |-> inv.resume, startTime |-> now,
                                    timer |-> TimerArmed(inv),
                                    signalled |-> FALSE,
                                    overlapped |-> InFlight(userId) # {}]
                              ELSE IF d \in InFlight(userId)
                              THEN [calls[d] EXCEPT !.overlapped = TRUE]
                              ELSE calls[d]]
                /\ ev' = [op |-> "execute", userId |-> userId,
                          newSession |-> NewSession(options),
                          afterClear |-> cleared[userId], inv |-> inv]
                /\ cleared' = [cleared EXCEPT ![userId] = FALSE]
                /\ UNCHANGED <<sessions, returned, completions>>
    /\ UNCHANGED <<activeProcesses, now>>

\* claude_code_execute, from the settlement of execAsync to its return.  A
\* process that was sent SIGTERM does not end with exit status 0, and only an
\* armed timer ends the wait by a timeout.
ExecuteComplete(c, outcome) ==
    /\ Awaiting(c)
    /\ outcome.kind = "timeout" => calls[c].timer
    /\ calls[c].signalled => outcome.kind \in {"killed", "nonzero"}
    /\ Return(c, calls[c].userId, outcome, TRUE,
              Settle(calls[c].userId, outcome, calls[c].startTime))
    /\ UNCHANGED <<activeProcesses, now, cleared>>

\* ------------------------------------------------ status, cancel, clear
\* A bug: looking a session up counts as activity on it.
StatusTouchesActivity(userId) ==
    /\ ev' = [op |-> "status", userId |-> userId,
              found |-> userId \in DOMAIN sessions,
              ret |-> IF userId \in DOMAIN sessions
                      THEN <<sessions[userId]>> ELSE <<>>]
    /\ sessions' = IF userId \in DOMAIN sessions
                   THEN [sessions EXCEPT ![userId].lastActivity = now]
                   ELSE sessions
    /\ UNCHANGED <<activeProcesses, calls, now, returned, completions, cleared>>

claude_code_status(userId) ==
    /\ ev' = [op |-> "status", userId |-> userId,
              found |-> userId \in DOMAIN sessions,
              ret |-> IF userId \in DOMAIN sessions
                      THEN <<sessions[userId]>> ELSE <<>>]
    /\ UNCHANGED <<sessions, activeProcesses, calls, now, returned, completions,
                   cleared>>

\* process.kill('SIGTERM') on the handle the table holds
Kill(callTable, handle) == [callTable EXCEPT ![handle].signalled = TRUE]

\* A bug: cancel also forgets the user's session.
CancelDeletesSession(userId) ==
    /\ sessions' = [u \in DOMAIN sessions \ {userId} |-> sessions[u]]
    /\ ev' = [op |-> "cancel", userId |-> userId,
              ret |-> userId \in DOMAIN activeProcesses,
              inFlight |-> InFlight(userId) # {}]
    /\ UNCHANGED <<calls, activeProcesses, now, returned, completions, cleared>>

claude_code_cancel(userId) ==
    /\ IF userId \in DOMAIN activeProcesses
       THEN /\ calls' = Kill(calls, activeProcesses[userId])
            /\ activeProcesses' =
                   [u \in DOMAIN activeProcesses \ {userId} |-> activeProcesses[u]]
       ELSE UNCHANGED <<calls, activeProcesses>>
    /\ ev' = [op |-> "cancel", userId |-> userId,
              ret |-> userId \in DOMAIN activeProcesses,
              inFlight |-> InFlight(userId) # {}]
    /\ UNCHANGED <<sessions, now, returned, completions, cleared>>

\* A bug: clearing empties the whole table.
ClearSessionClearsAll(userId) ==
    /\ sessions' = [u \in {} |-> Undefined]
    /\ ev' = [op |-> "clear", userId |-> userId, ret |-> userId \in DOMAIN sessions]
    /\ returned' = [returned EXCEPT ![userId] = Undefined]
    /\ completions' = [completions EXCEPT ![userId] = 0]
    /\ cleared' = [cleared EXCEPT ![userId] = TRUE]
    /\ UNCHANGED <<activeProcesses, calls, now>>

\* A bug: clearing also takes the linkage from the calls in flight.
ClearSessionDropsLinkage(userId) ==
    /\ sessions' = [u \in DOMAIN sessions \ {userId} |-> sessions[u]]
    /\ calls' = [d \in CallIds |->
                   IF d \in InFlight(userId)
                   THEN [calls[d] EXCEPT !.resume = Undefined] ELSE calls[d]]
    /\ ev' = [op |-> "clear", userId |-> userId, ret |-> userId \in DOMAIN sessions]
    /\ returned' = [returned EXCEPT ![userId] = Undefined]
    /\ completions' = [completions EXCEPT ![userId] = 0]
    /\ cleared' = [cleared EXCEPT ![userId] = TRUE]
    /\ UNCHANGED <<activeProcesses, now>>

\* A bug: the result of Map.delete is not what is returned.
ClearSessionReturnsTrue(userId) ==
    /\ sessions' = [u \in DOMAIN sessions \ {userId} |-> sessions[u]]
    /\ ev' = [op |-> "clear", userId |-> userId, ret |-> TRUE]
    /\ returned' = [returned EXCEPT ![userId] = Undefined]
    /\ completions' = [completions EXCEPT ![userId] = 0]
    /\ cleared' = [cleared EXCEPT ![userId] = TRUE]
    /\ UNCHANGED <<activeProcesses, calls, now>>

claude_code_clear_session(userId) ==
    /\ sessions' = [u \in DOMAIN sessions \ {userId} |-> sessions[u]]
    /\ ev' = [op |-> "clear", userId |-> userId, ret |-> userId \in DOMAIN sessions]
    /\ returned' = [returned EXCEPT ![userId] = Undefined]
    /\ completions' = [completions EXCEPT ![userId] = 0]
    /\ cleared' = [cleared EXCEPT ![userId] = TRUE]
    /\ UNCHANGED <<activeProcesses, calls, now>>

\* The wall clock moves on.
Tick ==
    /\ now < MaxTime
    /\ now' = now + 1
    /\ UNCHANGED <<sessions, activeProcesses, calls, ev, returned, completions,
                   cleared>>

\* ------------------------------------------------------- specification
Init ==
    /\ sessions = [u \in {} |-> Undefined]
    /\ activeProcesses = [u \in {} |-> 0]
    /\ calls = [c \in CallIds |-> IdleCall]
    /\ now = 0
    /\ ev = [op |-> "init"]
    /\ returned = [u \in UserIds |-> Undefined]
    /\ completions = [u \in UserIds |-> 0]
    /\ cleared = [u \in UserIds |-> FALSE]

Next ==
    \/ \E c \in CallIds, r \in Requests, u \in UserIds :
           ExecuteStart(c, r.prompt, u, r.options)
    \/ \E c \in CallIds, o \in Outcomes : ExecuteComplete(c, o)
    \/ \E u \in UserIds : claude_code_status(u)
    \/ \E u \in UserIds : claude_code_cancel(u)
    \/ \E u \in UserIds : claude_code_clear_session(u)
    \/ Tick

Spec == Init /\ [][Next]_vars

\* The timer of call c expires: exec kills the child and rejects.
TimerExpires(c) == ExecuteComplete(c, [kind |-> "timeout", stdout |-> NoParse("")])

\* The calls with every way of giving the timeout: none, 0, a value, a value
\* exec refuses.
TimeoutRequests ==
    { [prompt |-> PromptHi, options |-> o] :
        o \in {NoOptions, [timeout |-> 0], [timeout |-> 100], [timeout |-> -1]} }

NextTimeout ==
    \/ \E c \in CallIds, r \in TimeoutRequests :
           ExecuteStart(c, r.prompt, "u1", r.options)
    \/ \E c \in CallIds, o \in Outcomes : ExecuteComplete(c, o)
    \/ claude_code_cancel("u1")
    \/ claude_code_clear_session("u1")

\* A timer that is armed goes off unless the call has settled before.
SpecTimeout ==
    Init /\ [][NextTimeout]_vars /\ \A c \in CallIds : WF_vars(TimerExpires(c))

\* ------------------------------------------- the prompt, as a text
\* /bin/sh reading a double-quoted word, from the character after the opening
\* quote: a backslash quotes only $, the back quote, the double quote and the
\* backslash (and joins lines); before any other character it stays.  An
\* unquoted $ or back quote starts an expansion.  close is the place of the
\* closing quote, 0 when there is none.
RECURSIVE ShellDoubleQuoted(_, _, _, _)
ShellDoubleQuoted(s, i, arg, expanded) ==
    IF i > Len(s) THEN [arg |-> arg, close |-> 0, expanded |-> expanded]
    ELSE IF s[i] = "\"" THEN [arg |-> arg, close |-> i, expanded |-> expanded]
    ELSE IF s[i] = "\\"
    THEN IF i < Len(s) /\ s[i + 1] \in {"$", BackQuote, "\"", "\\"}
         THEN ShellDoubleQuoted(s, i + 2, Append(arg, s[i + 1]), expanded)
         ELSE IF i < Len(s) /\ s[i + 1] = "\n"
         THEN ShellDoubleQuoted(s, i + 2, arg, expanded)
         ELSE ShellDoubleQuoted(s, i + 1, Append(arg, "\\"), expanded)
    ELSE IF s[i] \in {"$", BackQuote}
    THEN ShellDoubleQuoted(s, i + 1, arg, TRUE)
    ELSE ShellDoubleQuoted(s, i + 1, Append(arg, s[i]), expanded)

\* The prompt argument of `claude -p "${escapeForShell(cleanPrompt)}" ...` as
\* the shell that exec starts reads it.
PromptArgument(prompt) ==
    LET cleanPrompt == sanitizePrompt(prompt)
        promptArg == escapeForShell(cleanPrompt)
    IN  [op |-> "argument", prompt |-> prompt, cleanPrompt |-> cleanPrompt,
         promptArg |-> promptArg,
         shell |-> ShellDoubleQuoted(promptArg \o <<"\"">>, 1, <<>>, FALSE)]

\* Prompt texts: up to MaxChunks pieces, each a character the shell treats
\* specially, an ordinary character, or a piece of a control flag.
Chunks ==
    { <<"\\">>, <<"\"">>, <<"$">>, <<BackQuote>>, <<"!">>, <<"a">>, <<"-">>,
      <<"-", "p", " ">>, <<"p", " ">>,
      <<"-", "-", "r", "e", "s", "u", "m", "e">>,
      <<"-", "-", "o", "u", "t", "p", "u", "t", "-", "f", "o", "r", "m", "a", "t">>,
      <<"-", "-", "d", "a", "n", "g", "e", "r", "o", "u", "s", "l", "y">>,
      <<"-", "-", "a", "l", "l", "o", "w", "e", "d">>,
      <<"T", "o", "o", "l", "s">> }

RECURSIVE TextsOf(_)
TextsOf(n) ==
    IF n = 0 THEN {<<>>}
    ELSE TextsOf(n - 1) \cup {t \o c : t \in TextsOf(n - 1), c \in Chunks}

PromptTexts == TextsOf(MaxChunks)

InitPrompt ==
    /\ sessions = [u \in {} |-> Undefined]
    /\ activeProcesses = [u \in {} |-> 0]
    /\ calls = [c \in CallIds |-> IdleCall]
    /\ now = 0
    /\ ev \in {[op |-> "prompt", prompt |-> p] : p \in PromptTexts}
    /\ returned = [u \in UserIds |-> Undefined]
    /\ completions = [u \in UserIds |-> 0]
    /\ cleared = [u \in UserIds |-> FALSE]

\* Lines 82 and 89 of claude_code_execute on the prompt, and the shell on the
\* command line.
PreparePrompt ==
    /\ ev.op = "prompt"
    /\ ev' = PromptArgument(ev.prompt)
    /\ UNCHANGED <<sessions, activeProcesses, calls, now, returned, completions,
                   cleared>>

SpecPrompt == InitPrompt /\ [][PreparePrompt]_vars

\* ------------------------------------------------------------ the router
\* config/routing.json, as the README gives it: every alternative of a trigger
\* is a pattern of its own.
claude_code_triggers ==
    { Lit(<<"f", "i", "l", "e">>),
      Lit(<<"f", "o", "l", "d", "e", "r">>),
      Lit(<<"d", "i", "r", "e", "c", "t", "o", "r", "y">>),
      Lit(<<"c", "r", "e", "a", "t", "e">>),
      Lit(<<"w", "r", "i", "t", "e">>),
      Lit(<<"e", "d", "i", "t">>),
      Lit(<<"m", "o", "d", "i", "f", "y">>),
      Lit(<<"c", "o", "d", "e">>),
      Lit(<<"s", "c", "r", "i", "p", "t">>),
      Lit(<<"p", "r", "o", "g", "r", "a", "m">>),
      Lit(<<"a", "n", "a", "l", "y", "z", "e">>),
      Lit(<<"r", "e", "v", "i", "e", "w">>),
      Lit(<<"c", "h", "e", "c", "k">>) }

always_openclaw ==
    { Lit(<<"w", "e", "a", "t", "h", "e", "r">>),
      Lit(<<"t", "i", "m", "e">>),
      Lit(<<"s", "i", "m", "p", "l", "e", " ", "q", "u", "e", "s", "t", "i", "o", "n">>) }

\* Case-insensitive search of a pattern in the message text.
Contains(s, pat) == \E i \in 1..Len(s) : MatchAt(s, i, pat)

MatchesAny(message, patterns) == \E pat \in patterns : Contains(message, pat)

\* A bug: the triggers are looked at first.
RouteTriggersFirst(message, fallback) ==
    IF MatchesAny(message, claude_code_triggers) THEN TRUE
    ELSE IF MatchesAny(message, always_openclaw) THEN FALSE
    ELSE fallback

\* Router.route: a message that matches an "always direct" pattern is handled
\* directly; otherwise one that matches a trigger goes to the agent; otherwise
\* the configured default decides.
Route(message, fallback) ==
    IF MatchesAny(message, always_openclaw) THEN FALSE
    ELSE IF MatchesAny(message, claude_code_triggers) THEN TRUE
    ELSE fallback

\* Messages: up to MaxChunks words, with and without matches of either kind.
MessageChunks ==
    { <<"w", "e", "a", "t", "h", "e", "r">>,
      <<"W", "E", "A", "T", "H", "E", "R">>,
      <<"t", "i", "m", "e">>,
      <<"f", "i", "l", "e">>,
      <<"C", "r", "e", "a", "t", "e">>,
      <<"a", "n", "a", "l", "y", "z", "e">>,
      <<"h", "i">>,
      <<" ">> }

RECURSIVE MessagesOf(_)
MessagesOf(n) ==
    IF n = 0 THEN {<<>>}
    ELSE MessagesOf(n - 1) \cup {t \o c : t \in MessagesOf(n - 1), c \in MessageChunks}

Messages == MessagesOf(MaxChunks) \ {<<>>}

InitRouter ==
    /\ sessions = [u \in {} |-> Undefined]
    /\ activeProcesses = [u \in {} |-> 0]
    /\ calls = [c \in CallIds |-> IdleCall]
    /\ now = 0
    /\ ev \in {[op |-> "message", message |-> m, fallback |-> f] :
                 m \in Messages, f \in BOOLEAN}
    /\ returned = [u \in UserIds |-> Undefined]
    /\ completions = [u \in UserIds |-> 0]
    /\ cleared = [u \in UserIds |-> FALSE]

\* decision = router.route(message); nothing is invoked at this point.
RouteMessage ==
    /\ ev.op = "message"
    /\ ev' = [op |-> "route", message |-> ev.message, fallback |-> ev.fallback,
              use_claude_code |-> Route(ev.message, ev.fallback)]
    /\ UNCHANGED <<sessions, activeProcesses, calls, now, returned, completions,
                   cleared>>

SpecRouter == InitRouter /\ [][RouteMessage]_vars

\* ------------------------------------------- the fields of the output
\* The objects the subprocess can write: each recognized field is absent,
\* empty, or has a value of its own.
FieldValues ==
    [ result |-> {"", "r"}, content |-> {"", "c"}, response |-> {"", "p"},
      sessionId |-> {"", "s2"}, session_id |-> {"", "s1"} ]

FieldNames == DOMAIN FieldValues

FieldOrder == <<"result", "content", "response", "sessionId", "session_id">>

ObjectProps ==
    UNION { {p \in [names -> {"", "r", "c", "p", "s1", "s2"}] :
                \A k \in names : p[k] \in FieldValues[k]} :
            names \in SUBSET FieldNames }

\* JSON.stringify of such an object, its fields in FieldOrder.
RECURSIVE Members(_, _)
Members(props, i) ==
    IF i > Len(FieldOrder) THEN <<>>
    ELSE (IF FieldOrder[i] \in DOMAIN props
          THEN <<"\"" \o FieldOrder[i] \o "\":\"" \o props[FieldOrder[i]] \o "\"">>
          ELSE <<>>) \o Members(props, i + 1)

Stringify(props) == "{" \o Join(Members(props, 1)) \o "}"

ObjectStdouts == {Parses(Stringify(p), JsonObject(p)) : p \in ObjectProps}

InitFields ==
    /\ sessions = [u \in {} |-> Undefined]
    /\ activeProcesses = [u \in {} |-> 0]
    /\ calls = [c \in CallIds |-> IdleCall]
    /\ now = 0
    /\ ev \in {[op |-> "stdout", stdout |-> s] : s \in ObjectStdouts \cup Stdouts}
    /\ returned = [u \in UserIds |-> Undefined]
    /\ completions = [u \in UserIds |-> 0]
    /\ cleared = [u \in UserIds |-> FALSE]

\* Lines 123-159 of claude_code_execute for user "u1", on the standard output
\* of a subprocess that exited with status 0.
ExtractFields ==
    /\ ev.op = "stdout"
    /\ LET settlement == Settle("u1", [kind |-> "exit0", stdout |-> ev.stdout], now)
       IN  /\ ev' = [op |-> "fields", stdout |-> ev.stdout,
                     settled |-> settlement.settled, result |-> settlement.result]
           /\ sessions' = settlement.sessions
    /\ UNCHANGED <<activeProcesses, calls, now, returned, completions, cleared>>

SpecFields == InitFields /\ [][ExtractFields]_vars

\* ------------------------------------------------------------- claims
ToolNames == {DEFAULT_TOOLS[i] : i \in 1..Len(DEFAULT_TOOLS)}

\* C1: session continuity.  When an execute of user u completed successfully
\* and returned token T, and since then u's session was not cleared and no
\* other completion returned a token to u, an execute started for u without
\* newSession issues an invocation whose --resume argument is exactly T.
C1_SessionContinuity ==
    (ev.op = "execute" /\ ~ev.newSession /\ returned[ev.userId] # Undefined)
        => ev.inv.resume = returned[ev.userId]

C1_Witness ==
    /\ ev.op = "execute"
    /\ ~ev.newSession
    /\ returned[ev.userId] = "s1"
    /\ ev.inv.resume = "s1"

\* C2: an execute started with newSession = true issues an invocation without
\* a --resume argument, whatever the session table holds.
C2_NewSessionNoResume ==
    (ev.op = "execute" /\ ev.newSession) => ev.inv.resume = Undefined

C2_Witness ==
    /\ ev.op = "execute"
    /\ ev.newSession
    /\ ev.userId \in DOMAIN sessions
    /\ ev.inv.resume = Undefined

\* C3: execute never faults past its boundary.  Every call settles by
\* returning a result, and when the subprocess failed (non-zero exit, timeout,
\* kill, output over the buffer, failure to start, options exec refuses) the
\* result has success = false, an empty output and a non-empty error.
C3_NeverFaults ==
    ev.op = "return" =>
        /\ ev.settled = "fulfilled"
        /\ ev.outcome.kind # "exit0" =>
               /\ ~ev.result.success
               /\ ev.result.output = ""
               /\ ~Falsy(ev.result.error)

C3_Witness ==
    /\ ev.op = "return"
    /\ ev.outcome.kind = "killed"
    /\ ev.settled = "fulfilled"
    /\ ~ev.result.success

\* C4: in every result execute returns, success = false implies an empty
\* output and a non-empty error, and success = true implies no error field.
C4_ResultInvariant ==
    (ev.op = "return" /\ ev.settled = "fulfilled") =>
        /\ ~ev.result.success =>
               (ev.result.output = "" /\ ~Falsy(ev.result.error))
        /\ ev.result.success => ev.result.error = Undefined

C4_Witness ==
    /\ ev.op = "return"
    /\ ev.result.success
    /\ ev.result.output = "done"
    /\ ev.result.error = Undefined

\* C5: the subprocess is started only with a capability list that is a
\* non-empty subset of the fixed enumeration.
C5_ToolsValidated ==
    ev.op = "execute" =>
        /\ ev.inv.tools # <<>>
        /\ \A i \in 1..Len(ev.inv.tools) : ev.inv.tools[i] \in ToolNames

\* C6: no subprocess is started for a prompt that is empty after sanitization
\* or for an empty userId.
C6_EmptyInputRejected ==
    ev.op = "execute" => (ev.inv.cleanPrompt # <<>> /\ ev.userId # "")

\* C7: cancel(userId) called while an execute of userId awaits its subprocess
\* returns true and has signalled that subprocess.
C7_CancelFindsProcess ==
    (ev.op = "cancel" /\ ev.inFlight) =>
        /\ ev.ret
        /\ \E c \in CallIds : calls[c].userId = ev.userId /\ calls[c].signalled

\* C8: at no time are two subprocesses of the same userId running.
C8_SerializedPerUser ==
    \A u \in UserIds : Cardinality(InFlight(u)) <= 1

\* C9: no session update is lost.  The messageCount of a user's record is the
\* number of completions that returned a token to that user since the record
\* was created (none exists between a clearSession and the next of them).
C9_NoLostUpdate ==
    \A u \in DOMAIN sessions : sessions[u].messageCount = completions[u]

C9_Witness ==
    /\ ev.op = "return"
    /\ ev.overlapped
    /\ ev.userId \in DOMAIN sessions
    /\ sessions[ev.userId].messageCount = 2
    /\ completions[ev.userId] = 2

\* C10: the first invocation issued for a user after clearSession(user)
\* returned carries no --resume argument.
C10_ClearStartsFresh ==
    (ev.op = "execute" /\ ev.afterClear)
        => ev.inv.resume = Undefined


\* Steps, told by what they leave: a step of clearSession, of cancel, and the
\* return of an execute call (the clock's step leaves ev and calls alone).
ClearStep == ev'.op = "clear" /\ now' = now

CancelStep == ev'.op = "cancel" /\ now' = now

ReturnStep == ev'.op = "return" /\ calls' # calls

\* C11: a clearSession(userId) made while an execute of userId is in flight
\* leaves every call as it was (its place, its --resume linkage) and leaves
\* the in-flight table as it was.
C11_ClearLeavesInFlight ==
    [][(ClearStep /\ InFlight(ev'.userId) # {})
          => (calls' = calls /\ activeProcesses' = activeProcesses)]_vars

C11_Witness ==
    /\ ev.op = "clear"
    /\ ev.ret
    /\ \E c \in InFlight(ev.userId) : calls[c].resume = "s1"

\* C12: clearSession(userId) returns true exactly when userId had a session
\* just before the call, and no session of userId exists after it; a second
\* call right after the first returns false.
C12_ClearReturnsExisted ==
    [][ClearStep =>
          /\ ev'.ret = (ev'.userId \in DOMAIN sessions)
          /\ ev'.userId \notin DOMAIN sessions'
          /\ (ev.op = "clear" /\ ev.userId = ev'.userId) => ~ev'.ret]_vars

C12_Witness ==
    /\ ev.op = "clear"
    /\ ev.ret
    /\ ev.userId \notin DOMAIN sessions

\* C13: cancel(userId) for a user with no execute in flight returns false and
\* leaves the session table and the in-flight table as they were.
C13_CancelNothingInFlight ==
    [][(CancelStep /\ ~ev'.inFlight)
          => (~ev'.ret /\ sessions' = sessions
              /\ activeProcesses' = activeProcesses /\ calls' = calls)]_vars

C13_Witness ==
    /\ ev.op = "cancel"
    /\ ~ev.inFlight
    /\ ~ev.ret
    /\ ev.userId \in DOMAIN sessions


\* C14: when the subprocess runs past the timeout, execute returns
\* success = false with an error that tells a timeout from a non-zero exit.
C14_TimeoutDistinguished ==
    (ev.op = "return" /\ ev.outcome.kind = "timeout") =>
        /\ ~ev.result.success
        /\ ev.result.error #
               Settle(ev.userId, [kind |-> "nonzero", stdout |-> NoParse("")],
                      now).result.error

\* C16: a result with success = true has a non-empty output, whatever the
\* subprocess wrote to its standard output.
C16_SuccessHasOutput ==
    (ev.op = "return" /\ ev.result.success) => ~Falsy(ev.result.output)

\* C17: parse-degraded mode.  When the subprocess exits with status 0 and its
\* standard output does not parse, execute returns success = true with the
\* raw standard output as output and no session token, and the session table
\* stays as it was.
C17_ParseDegraded ==
    [][(ReturnStep /\ ev'.outcome.kind = "exit0" /\ ~ev'.outcome.stdout.valid)
          => /\ ev'.settled = "fulfilled"
             /\ ev'.result.success
             /\ ev'.result.output = ev'.outcome.stdout.raw
             /\ ev'.result.sessionId = Undefined
             /\ sessions' = sessions]_vars

C17_Witness ==
    /\ ev.op = "return"
    /\ ev.outcome.kind = "exit0"
    /\ ~ev.outcome.stdout.valid
    /\ ev.result.success
    /\ ev.result.output = "plain text"
    /\ ev.userId \in DOMAIN sessions


\* C15: every execute call that awaits its subprocess returns in the end,
\* also when the subprocess never ends by itself: every invocation is issued
\* with a timeout above 0, and the expiry of the timer ends the wait.
C15_EveryCallResolves ==
    /\ \A c \in CallIds : (calls[c].pc = "awaiting") ~> (calls[c].pc = "done")
    /\ [](ev.op = "execute" => ev.inv.timeout \in {100, DEFAULT_TIMEOUT})

C15_Witness ==
    /\ ev.op = "return"
    /\ ev.outcome.kind = "timeout"
    /\ ev.settled = "fulfilled"
    /\ \A c \in CallIds : calls[c].pc = "done"


\* C18: shell-escape round trip.  The shell reads the double-quoted, escaped
\* prompt as one word that ends at the closing quote, without expansion, and
\* the word is exactly the sanitized prompt.
C18_ShellRoundTrip ==
    ev.op = "argument" =>
        /\ ev.shell.close = Len(ev.promptArg) + 1
        /\ ~ev.shell.expanded
        /\ ev.shell.arg = ev.cleanPrompt

\* The control-flag patterns of the security document.
PatResume == Lit(<<"-", "-", "r", "e", "s", "u", "m", "e">>)

PatOutputFormat ==
    Lit(<<"-", "-", "o", "u", "t", "p", "u", "t", "-", "f", "o", "r", "m", "a", "t">>)

ControlPatterns ==
    {PatAllowedTools, PatDangerously, PatPrintFlag, PatResume, PatOutputFormat}

\* C19: the prompt handed to the tool holds no occurrence, in any case of the
\* letters, of --allowedTools, --dangerously, -p followed by white space,
\* --resume or --output-format.
C19_NoControlFlags ==
    ev.op = "argument" =>
        \A pat \in ControlPatterns : ~Contains(ev.cleanPrompt, pat)


\* The next call the program receives.
NextCall(c) == calls[c].pc = "idle" /\ \A d \in CallIds : d < c => calls[d].pc = "done" \/ Awaiting(d)

Exit0 == [kind |-> "exit0", stdout |-> NoParse("")]

\* C20: execute calls of different users never block one another.  Whatever
\* calls are in flight, the next call starts for every user, and every call in
\* flight can complete, whichever of them started first.  (The prompt plays no
\* part in whether a call starts; the shortest one is taken.)
C20_UsersDoNotBlock ==
    \A c \in CallIds :
        /\ NextCall(c) =>
               \A userId \in UserIds : ENABLED ExecuteStart(c, <<>>, userId, NoOptions)
        /\ Awaiting(c) => ENABLED ExecuteComplete(c, Exit0)

\* A call of one user has returned while a call of another user, started
\* before it, is still in flight.
C20_Witness ==
    /\ ev.op = "return" /\ ev.spawned /\ ev.result.success
    /\ \E c, d \in CallIds :
           /\ c < d
           /\ Awaiting(c)
           /\ calls[c].userId # ev.userId
           /\ calls[d].pc = "done"
           /\ calls[d].userId = ev.userId
           /\ \A e \in CallIds \ {d} : calls[e].pc # "done"


StatusStep == ev'.op = "status" /\ now' = now

\* C21: status(userId) is a pure lookup.  It returns the session the table
\* holds for userId, or nothing when the table holds none, and leaves the
\* session table, the in-flight table and the calls as they were.
C21_StatusPureLookup ==
    [][StatusStep =>
          /\ ev'.ret = (IF ev'.userId \in DOMAIN sessions
                        THEN <<sessions[ev'.userId]>> ELSE <<>>)
          /\ sessions' = sessions
          /\ activeProcesses' = activeProcesses
          /\ calls' = calls]_vars

\* A status call found a session whose last activity lies in the past.
C21_Witness ==
    /\ ev.op = "status" /\ ev.found
    /\ ev.ret = <<sessions[ev.userId]>>
    /\ sessions[ev.userId].lastActivity < now


\* The directory the security document permits.
ALLOWED_WORKING_DIR == "/home/user/projects/safe-workspace"

\* C22: no external invocation is issued with a working directory outside the
\* permitted path: the cwd handed to exec is absent or the permitted directory.
C22_WorkingDirPermitted ==
    ev.op = "execute" => ev.inv.cwd \in {Undefined, ALLOWED_WORKING_DIR}


\* C23: direct-pattern priority.  For every message that matches an "always
\* direct" pattern the routing decision is false, whether or not the message
\* also matches a "route to agent" pattern and whatever the default is.
C23_DirectPriority ==
    (ev.op = "route" /\ MatchesAny(ev.message, always_openclaw)) =>
        ~ev.use_claude_code

\* A message that matches a pattern of both kinds was routed, with the default
\* set to the agent.
C23_Witness ==
    /\ ev.op = "route"
    /\ ev.fallback
    /\ MatchesAny(ev.message, always_openclaw)
    /\ MatchesAny(ev.message, claude_code_triggers)
    /\ ~ev.use_claude_code


\* C24: the session table changes only through an execute that completed with
\* success and a token, and through clearSession.  An execute that fails or
\* succeeds without a token, and every status and cancel call, leave every
\* session record as it was.
C24_SessionsFrame ==
    [][sessions' # sessions =>
          \/ ClearStep
          \/ /\ ReturnStep
             /\ ev'.outcome.kind = "exit0"
             /\ ev'.result.success
             /\ ~Falsy(ev'.result.sessionId)]_vars

\* A call of a user who has a session failed, and the session is still there.
C24_Witness ==
    /\ ev.op = "return" /\ ev.spawned
    /\ ev.outcome.kind \in {"nonzero", "timeout", "killed"}
    /\ ~ev.result.success
    /\ ev.userId \in DOMAIN sessions

\* C25: whenever the subprocess exits normally within the timeout and the
\* buffer limit, execute returns success = true, whatever the standard output
\* holds: an object, a value that is not an object, text that does not parse,
\* or nothing.
C25_NormalExitSucceeds ==
    (ev.op = "return" /\ ev.outcome.kind = "exit0") => ev.result.success


\* C26: no session hijack through the table.  Every resume token that an
\* invocation for user u carries is the token the tool last returned to an
\* invocation for u, with no clearSession for u since; a token returned to
\* other users only is never carried.
C26_NoHijack ==
    (ev.op = "execute" /\ ev.inv.resume # Undefined)
        => ev.inv.resume = returned[ev.userId]

\* An invocation carries the token its own user got, and no other user got one.
C26_Witness ==
    /\ ev.op = "execute"
    /\ ev.inv.resume = "s2"
    /\ returned[ev.userId] = "s2"
    /\ \A v \in UserIds \ {ev.userId} : returned[v] = Undefined


\* A step of execute (its start or its completion), cancel or clearSession;
\* ev'.userId is the user it was called for.
UserStep == ev'.op \in {"execute", "return", "cancel", "clear"} /\ now' = now

\* What the tables hold for user u: the session record, the handle, and the
\* calls in flight.
Holds(table, u) == IF u \in DOMAIN table THEN <<table[u]>> ELSE <<>>

\* C27: cross-user isolation of state.  execute, cancel and clearSession
\* called for user A never create, change or delete the session record, the
\* in-flight handle or a call in flight of a different user B.
C27_CrossUserIsolation ==
    [][UserStep =>
          \A B \in UserIds \ {ev'.userId} :
              /\ Holds(sessions', B) = Holds(sessions, B)
              /\ Holds(activeProcesses', B) = Holds(activeProcesses, B)
              /\ \A c \in CallIds :
                     (calls[c].userId = B /\ calls[c].pc # "idle")
                         => calls'[c] = calls[c]]_vars

\* clearSession deleted the record of one user while another user has one.
C27_Witness ==
    /\ ev.op = "clear" /\ ev.ret
    /\ \E B \in UserIds \ {ev.userId} : B \in DOMAIN sessions


C29_ReplacementKeepsRecord ==
    [][(ReturnStep /\ ev'.result.success /\ ~Falsy(ev'.result.sessionId)
            /\ ev'.userId \in DOMAIN sessions)
          => /\ ev'.userId \in DOMAIN sessions'
             /\ sessions'[ev'.userId] =
                    [sessionId |-> ev'.result.sessionId,
                     messageCount |-> sessions[ev'.userId].messageCount + 1,
                     startedAt |-> sessions[ev'.userId].startedAt,
                     lastActivity |-> now]]_vars

\* The second of two calls of a user, started after the first had completed
\* and without --resume (that is, with newSession = true), has replaced the
\* token at a later time: the count is 2 and the record is as old as before.
C29_Witness ==
    /\ ev.op = "return" /\ ~ev.overlapped /\ ev.resume = Undefined
    /\ ev.result.sessionId = "s2"
    /\ returned[ev.userId] = "s2"
    /\ sessions[ev.userId] =
           [sessionId |-> "s2", messageCount |-> 2, startedAt |-> 0,
            lastActivity |-> 1]


\* C30: in every reachable state each session record has messageCount >= 1
\* and startedAt <= lastActivity; and as long as a user's record stays in the
\* table (from its creation to the next clearSession of that user) its
\* messageCount never decreases and its startedAt never changes.
C30_RecordInvariant ==
    /\ [](\A u \in DOMAIN sessions :
              /\ sessions[u].messageCount >= 1
              /\ sessions[u].startedAt <= sessions[u].lastActivity)
    /\ [][\A u \in DOMAIN sessions \cap DOMAIN sessions' :
              /\ sessions'[u].messageCount >= sessions[u].messageCount
              /\ sessions'[u].startedAt = sessions[u].startedAt]_vars

\* A record was updated, by a call that overlapped another, after the time of
\* its creation.
C30_Witness ==
    /\ ev.op = "return" /\ ev.overlapped
    /\ ev.userId \in DOMAIN sessions
    /\ sessions[ev.userId].messageCount = 2
    /\ sessions[ev.userId].startedAt < sessions[ev.userId].lastActivity


\* The field key of a parsed value, when it is there and not empty.
NonEmptyField(value, key) ==
    value.type = "object" /\ key \in DOMAIN value.props /\ value.props[key] # ""

\* C31: field extraction follows fixed priorities.  The output of a successful
\* result is the first non-empty of the fields result, content, response of
\* the parsed output, and otherwise the raw standard output; the session token
\* is the field sessionId when it is non-empty, and otherwise session_id
\* (nothing when that field is absent).
C31_FieldPriorities ==
    (ev.op = "fields" /\ ev.result.success) =>
        LET value == ev.stdout.value
        IN  /\ ev.result.output =
                   (IF NonEmptyField(value, "result") THEN value.props.result
                    ELSE IF NonEmptyField(value, "content") THEN value.props.content
                    ELSE IF NonEmptyField(value, "response") THEN value.props.response
                    ELSE ev.stdout.raw)
            /\ ev.result.sessionId =
                   (IF NonEmptyField(value, "sessionId") THEN value.props.sessionId
                    ELSE IF value.type = "object" /\ "session_id" \in DOMAIN value.props
                    THEN value.props.session_id
                    ELSE Undefined)

\* An output with an empty result and an empty sessionId, and with values in
\* all the other fields: content and session_id are taken.
C31_Witness ==
    /\ ev.op = "fields" /\ ev.result.success
    /\ ev.stdout.value.type = "object"
    /\ ev.stdout.value.props =
           [result |-> "", content |-> "c", response |-> "p",
            sessionId |-> "", session_id |-> "s1"]
    /\ ev.result.output = "c"
    /\ ev.result.sessionId = "s1"
    /\ sessions["u1"].sessionId = "s1"

====
